---- MODULE Spec2Model ----
(***************************************************************************)
(* A model of the bufo bot (zzstoatzz/find-bufo, bot/src/bufo_bot):        *)
(*   - matcher.py    extract_phrase, BufoMatcher.__init__, find_match      *)
(*   - jetstream.py  JetstreamClient.stream_posts (reconnecting consumer)  *)
(*   - main.py       get_recent_bufo_names, quote_post_with_bufo, run_bot  *)
(*                                                                         *)
(* Python strings are sequences of one-character strings, so that          *)
(* str.lower, str.replace, str.rsplit, re.sub and re.findall are computed  *)
(* character by character as the interpreter computes them.                *)
(*                                                                         *)
(* Three specifications share the module:                                  *)
(*   PhraseSpec  extract_phrase and the tokenization of find_match         *)
(*   MatchSpec   BufoMatcher construction and find_match                   *)
(*   Spec        run_bot driving stream_posts (FairSpec adds fairness)     *)
(***************************************************************************)
EXTENDS Integers, Sequences, FiniteSets, TLC

VARIABLES
    \* ---- PhraseSpec: one evaluation of extract_phrase ----
    filename,      \* the argument of extract_phrase
    words,         \* extract_phrase's local `words` before the prefix strip
    phrase,        \* extract_phrase(filename)
    rendered,      \* the phrase joined back to text
    phrase2,       \* extract_phrase(rendered)
    post_words,    \* find_match's tokenization of the same text
    ppc,           \* position of the evaluation
    \* ---- the matcher (MatchSpec, Spec) ----
    bufos,         \* the catalog: the list[Bufo] given to BufoMatcher
    matcher,       \* the BufoMatcher: min_words and self.bufos, or NoMatcher
    post_text,     \* the argument of find_match
    match,         \* what find_match returned: a BufoMatch or None
    mpc,           \* position of the matcher's caller
    \* ---- run_bot and stream_posts (Spec) ----
    settings,      \* config.py Settings: the fields run_bot reads
    pc,            \* position of run_bot
    cstate,        \* position of the stream_posts generator
    post,          \* the Post the generator yielded, or NoPost
    recent_bufos,  \* run_bot's cooldown set
    last_refresh,  \* run_bot's last_refresh
    now,           \* the wall clock, in seconds
    feed,          \* the bot account's posts on the network, newest first
    last_msg,      \* the feed message the consumer's latest step read, or NoMsg
    failures,      \* failed steps of the consumer since it last connected,
                   \* counted up to MaxFailures (history)
    delay,         \* seconds the consumer slept before its current connection
                   \* attempt (history)
    handled,       \* what the loop body did, when it was the latest step
                   \* (history), or NoStep
    invoked,       \* names quote_post_with_bufo was called for since the
                   \* cooldown set was last replaced (history)
    reinvoked,     \* some name was in `invoked` when it was called for (history)
    \* ---- one call of embed_image (EmbedSpec) ----
    max_retries,   \* the argument max_retries
    n_frames,      \* image.n_frames of the image at image_path, 0 if it does not open
    attempt,       \* the loop variable of `for attempt in range(max_retries)`
    requests,      \* how many times client.post was called (history)
    waits,         \* the arguments of the asyncio.sleep calls, in order (history)
    sent,          \* the frame indices in the content of the last request
    response,      \* how the latest iteration ended, or "none" (history)
    eresult,       \* what embed_image returned, or "pending"
    epc            \* position of embed_image

phraseVars == <<filename, words, phrase, rendered, phrase2, post_words, ppc>>

matchVars == <<bufos, matcher, post_text, match, mpc>>

botVars == <<settings, pc, cstate, post, recent_bufos, last_refresh, now, feed,
             last_msg, failures, delay, handled, invoked, reinvoked>>

embedVars == <<max_retries, n_frames, attempt, requests, waits, sent, response,
               eresult, epc>>

vars == <<phraseVars, matchVars, botVars, embedVars>>

(***************************************************************************)
(* Bounds of the model.                                                    *)
(***************************************************************************)
MaxChunks == 4          \* a file name is at most this many chunks long
MaxCatalog == 2         \* a catalog holds at most this many entries (MatchSpec)
MaxTextWords == 3       \* a post text is at most this many words long
MaxTicks == 6           \* the clock advances at most this many units
MaxPosts == 2           \* the bot account holds at most this many posts
MaxFailures == 2        \* consecutive consumer failures are counted up to this
MaxHistory == 3         \* a history holds this many posts, or FeedLimit - 1 more
MaxRetries == 3         \* embed_image is called with max_retries up to this
MaxImageFrames == 7     \* an image has at most this many frames

(***************************************************************************)
(* Characters and strings.                                                 *)
(***************************************************************************)
LowerLetters ==
    <<"a","b","c","d","e","f","g","h","i","j","k","l","m",
      "n","o","p","q","r","s","t","u","v","w","x","y","z">>

UpperLetters ==
    <<"A","B","C","D","E","F","G","H","I","J","K","L","M",
      "N","O","P","Q","R","S","T","U","V","W","X","Y","Z">>

Range(s) == {s[i] : i \in 1..Len(s)}

\* the character class [a-z] of the two regular expressions
IsLowerLetter(c) == c \in Range(LowerLetters)

\* str.lower() on one character
LowerChar(c) ==
    IF \E i \in 1..26 : UpperLetters[i] = c
    THEN LowerLetters[CHOOSE i \in 1..26 : UpperLetters[i] = c]
    ELSE c

\* str.lower()
Lower(s) == [i \in 1..Len(s) |-> LowerChar(s[i])]

\* str.replace(old, new) for one-character old and new
Replace(s, old, new) == [i \in 1..Len(s) |-> IF s[i] = old THEN new ELSE s[i]]

\* filename.rsplit(".", 1)[0]: everything before the last ".", or the whole
\* string when it holds no "."
RSplitFirst(s) ==
    IF \E i \in 1..Len(s) : s[i] = "."
    THEN LET last == CHOOSE i \in 1..Len(s) :
                        /\ s[i] = "."
                        /\ \A j \in (i+1)..Len(s) : s[j] # "."
         IN  SubSeq(s, 1, last - 1)
    ELSE s

\* re.sub(r"[-_]", " ", name)
SubSeparators(s) ==
    [i \in 1..Len(s) |-> IF s[i] \in {"-", "_"} THEN " " ELSE s[i]]

\* re.findall(r"[a-z]+", s), scanning left to right: the maximal runs of
\* lowercase letters; every other character ends the current run
RECURSIVE FindAllFrom(_, _, _, _)
FindAllFrom(s, i, run, acc) ==
    IF i > Len(s)
    THEN IF run = <<>> THEN acc ELSE Append(acc, run)
    ELSE IF IsLowerLetter(s[i])
         THEN FindAllFrom(s, i + 1, Append(run, s[i]), acc)
         ELSE FindAllFrom(s, i + 1, <<>>,
                          IF run = <<>> THEN acc ELSE Append(acc, run))

Digits == {"0","1","2","3","4","5","6","7","8","9"}

\* a tokenizer that reads maximal runs of letters and digits and discards
\* every run that holds a digit ("v2" yields nothing)
RECURSIVE FindAllAlnumFrom(_, _, _, _, _)
FindAllAlnumFrom(s, i, run, clean, acc) ==
    LET flush == IF run # <<>> /\ clean THEN Append(acc, run) ELSE acc
    IN  IF i > Len(s) THEN flush
        ELSE IF IsLowerLetter(s[i])
             THEN FindAllAlnumFrom(s, i + 1, Append(run, s[i]), clean, acc)
             ELSE IF s[i] \in Digits
                  THEN FindAllAlnumFrom(s, i + 1, Append(run, s[i]), FALSE, acc)
                  ELSE FindAllAlnumFrom(s, i + 1, <<>>, TRUE, flush)

FindAllDroppingDigitRuns(s) == FindAllAlnumFrom(s, 1, <<>>, TRUE, <<>>)

FindAll(s) == FindAllFrom(s, 1, <<>>, <<>>)

BUFO == <<"b","u","f","o">>

\* a prefix strip that removes every leading "bufo"
RECURSIVE StripEveryLeadingBufo(_)
StripEveryLeadingBufo(ws) ==
    IF ws # <<>> /\ ws[1] = BUFO
    THEN StripEveryLeadingBufo(Tail(ws))
    ELSE ws

\* matcher.py: if words and words[0] == "bufo": words = words[1:]
StripLeadingBufo(ws) ==
    IF ws # <<>> /\ ws[1] = BUFO THEN Tail(ws) ELSE ws

\* matcher.py extract_phrase, up to the findall: the local `words`
ExtractWords(name) == FindAll(Lower(SubSeparators(RSplitFirst(name))))

\* matcher.py extract_phrase
extract_phrase(name) == StripLeadingBufo(ExtractWords(name))

\* matcher.py find_match: post_words = re.findall(r"[a-z]+", post_text.lower())
PostWords(text) == FindAll(Lower(text))

\* sep.join(words)
RECURSIVE Join(_, _)
Join(ws, sep) ==
    IF ws = <<>> THEN <<>>
    ELSE IF Len(ws) = 1 THEN ws[1]
    ELSE ws[1] \o <<sep>> \o Join(Tail(ws), sep)

RECURSIVE Flatten(_)
Flatten(ss) == IF ss = <<>> THEN <<>> ELSE ss[1] \o Flatten(Tail(ss))

(***************************************************************************)
(* matcher.py: Bufo, BufoMatch, BufoMatcher.                               *)
(***************************************************************************)
\* dataclass Bufo
Bufo(name, url) == [name |-> name, url |-> url]

\* Python's None
None == [kind |-> "None"]

\* dataclass BufoMatch
BufoMatch(name, url, phr) ==
    [kind |-> "BufoMatch", name |-> name, url |-> url, phrase |-> phr]

\* no BufoMatcher has been constructed
NoMatcher == [min_words |-> 0, bufos |-> <<>>, built |-> FALSE]

\* an index that keeps every entry of the catalog, whatever its phrase
BuildPhrasesUnfiltered(bs, min_words) ==
    [i \in 1..Len(bs) |-> [bufo |-> bs[i], phrase |-> extract_phrase(bs[i].name)]]

\* BufoMatcher.__init__'s loop: self.bufos, the (bufo, phrase) pairs of the
\* entries whose phrase has at least min_words words, in catalog order
RECURSIVE BuildPhrases(_, _)
BuildPhrases(bs, min_words) ==
    IF bs = <<>> THEN <<>>
    ELSE LET phr == extract_phrase(bs[1].name)
         IN  (IF Len(phr) >= min_words
              THEN <<[bufo |-> bs[1], phrase |-> phr]>> ELSE <<>>)
             \o BuildPhrases(Tail(bs), min_words)

\* BufoMatcher.__init__
NewMatcher(bs, min_words) ==
    [min_words |-> min_words, bufos |-> BuildPhrases(bs, min_words), built |-> TRUE]

\* a window test that also accepts the words of the phrase in order with
\* other words in between
RECURSIVE ContainsSubsequence(_, _)
ContainsSubsequence(pw, phr) ==
    IF phr = <<>> THEN TRUE
    ELSE IF pw = <<>> THEN FALSE
    ELSE IF pw[1] = phr[1] THEN ContainsSubsequence(Tail(pw), Tail(phr))
    ELSE ContainsSubsequence(Tail(pw), phr)

\* a window test that compares the first word of the window only
ContainsFirstWord(pw, phr) ==
    \E i \in 0..(Len(pw) - Len(phr)) : phr = <<>> \/ pw[i + 1] = phr[1]

\* BufoMatcher._contains_phrase: for i in range(len(post_words) - phrase_len + 1),
\* post_words[i : i + phrase_len] == phrase
contains_phrase(pw, phr) ==
    \E i \in 0..(Len(pw) - Len(phr)) : SubSeq(pw, i + 1, i + Len(phr)) = phr

\* find_match's loop over self.bufos: the first pair whose phrase the post
\* contains, as a BufoMatch; None when the loop ends
RECURSIVE FirstMatch(_, _)
FirstMatch(pairs, pw) ==
    IF pairs = <<>> THEN None
    ELSE IF contains_phrase(pw, pairs[1].phrase)
         THEN BufoMatch(pairs[1].bufo.name, pairs[1].bufo.url,
                        Join(pairs[1].phrase, " "))
         ELSE FirstMatch(Tail(pairs), pw)

\* a loop that keeps the last pair whose phrase the post contains
RECURSIVE LastMatch(_, _)
LastMatch(pairs, pw) ==
    IF pairs = <<>> THEN None
    ELSE LET rest == LastMatch(Tail(pairs), pw)
         IN  IF rest # None THEN rest
             ELSE IF contains_phrase(pw, pairs[1].phrase)
                  THEN BufoMatch(pairs[1].bufo.name, pairs[1].bufo.url,
                                 Join(pairs[1].phrase, " "))
                  ELSE None

\* find_match keeping the last match instead of the first
find_last_match(m, text) ==
    LET pw == PostWords(text)
    IN  IF Len(pw) < m.min_words THEN None ELSE LastMatch(m.bufos, pw)

\* BufoMatcher.find_match
find_match(m, text) ==
    LET pw == PostWords(text)
    IN  IF Len(pw) < m.min_words THEN None ELSE FirstMatch(m.bufos, pw)

(***************************************************************************)
(* jetstream.py: Post and the messages of the feed.                        *)
(***************************************************************************)
\* JSON values of record.text: a string, a number, null, or no such key
Str(chars) == [type |-> "str", chars |-> chars]
Num(n) == [type |-> "int", value |-> n]
Null == [type |-> "null"]
Absent == [type |-> "absent"]

\* Python truthiness of record.get("text", ""): the default is ""
Truthy(v) ==
    \/ v.type = "str" /\ v.chars # <<>>
    \/ v.type = "int" /\ v.value # 0

\* one text frame of the subscription.  json: "invalid" (not JSON), "array"
\* (JSON, but no object) or "object"; commit and record: "absent", "nonobject"
\* or "object"
Message(json, kind, commit, operation, collection, record, text) ==
    [json |-> json, kind |-> kind, commit |-> commit, operation |-> operation,
     collection |-> collection, record |-> record, text |-> text,
     did |-> "did:plc:1", rkey |-> "rk1"]

NoMsg == [json |-> "none"]

PostsCollection == "app.bsky.feed.post"

\* dataclass Post
Post(did, rkey, text) == [did |-> did, rkey |-> rkey, text |-> text]

NoPost == [did |-> "", rkey |-> "", text |-> Absent]

\* stream_posts, lines 48-60, on one received message:
\*   "skip"   json.JSONDecodeError, or one of the three `continue`s
\*   "error"  data, commit or record has no .get: AttributeError leaves the
\*            inner try (it catches JSONDecodeError only) and the `with`
\*   "yield"  a Post is yielded
Classify(msg) ==
    IF msg.json = "invalid" THEN "skip"
    ELSE IF msg.json # "object" THEN "error"
    ELSE IF msg.kind # "commit" THEN "skip"
    ELSE IF msg.commit = "nonobject" THEN "error"
    ELSE IF msg.commit = "absent" \/ msg.operation # "create" THEN "skip"
    ELSE IF msg.record = "nonobject" THEN "error"
    ELSE IF msg.record = "absent" \/ ~Truthy(msg.text) THEN "skip"
    ELSE "yield"

ReconnectDelay == 5         \* time.sleep(5)

\* a consumer that retries at once, without the wait
RetryAtOnce(stage) == "Connecting"

\* a consumer whose try covers the receive loop only: a failed connect ends it
GiveUpOnFailedConnect(stage) ==
    IF stage = "connect" THEN "Terminated" ELSE "Disconnected"

\* stream_posts, lines 64-66: except Exception, whatever raised (stage is
\* "connect", "receive" or "message"): log, time.sleep(5), and the outer
\* `while True` goes round
AfterFailure(stage) == "Disconnected"

(***************************************************************************)
(* main.py: the cooldown set and the recent-publish history.               *)
(***************************************************************************)
RefreshInterval == 300      \* if now - last_refresh > 300

\* the clock of the model: it starts at StartTime and advances in units of a
\* third of the refresh interval
TickUnit == RefreshInterval \div 3
StartTime == 10 * TickUnit
FeedLimit == 50             \* get_author_feed(... "limit": 50)

\* created_at of a post record: an ISO string that parses to ts, a string
\* that does not parse, or no string
Iso(ts) == [type |-> "iso", ts |-> ts]

\* quote_post_with_bufo: alt=match.name.replace("-", " ")
AltText(name) == Replace(name, "-", " ")

\* the post send_post creates at time t
BotPost(name, t) == [created_at |-> Iso(t), alts |-> <<AltText(name)>>]

\* get_recent_bufo_names, lines 46-50: both file names guessed from each
\* non-empty alt text of one post
RECURSIVE NamesFromAlts(_)
NamesFromAlts(alts) ==
    IF alts = <<>> THEN {}
    ELSE (IF alts[1] # <<>>
          THEN { Replace(alts[1], " ", "-") \o <<".","p","n","g">>,
                 Replace(alts[1], " ", "-") \o <<".","g","i","f">> }
          ELSE {})
         \cup NamesFromAlts(Tail(alts))

\* get_recent_bufo_names, lines 28-50: the loop over feed.feed
RECURSIVE ScanFeed(_, _, _)
ScanFeed(items, cutoff, recent) ==
    IF items = <<>> THEN recent
    ELSE LET created == items[1].created_at
         IN  IF created.type = "iso" /\ created.ts < cutoff
             THEN recent                                   \* break
             ELSE IF created.type = "badstr"
             THEN ScanFeed(Tail(items), cutoff, recent)    \* ValueError: continue
             ELSE ScanFeed(Tail(items), cutoff,
                           recent \cup NamesFromAlts(items[1].alts))

\* a history fetch whose except clause returns the names built before the
\* failure, here all of them
KeepsBuiltNames(posts, t, minutes, fetch_ok) ==
    ScanFeed(SubSeq(posts, 1, IF Len(posts) < FeedLimit THEN Len(posts) ELSE FeedLimit),
             t - minutes * 60, {})

\* get_recent_bufo_names: the set built from the newest FeedLimit posts, or
\* set() when anything raised
get_recent_bufo_names(posts, t, minutes, fetch_ok) ==
    IF fetch_ok
    THEN ScanFeed(SubSeq(posts, 1, IF Len(posts) < FeedLimit THEN Len(posts) ELSE FeedLimit),
                  t - minutes * 60, {})
    ELSE {}

\* a loop body that forgets the local insert
KeepSet(recent, name) == recent

\* run_bot, line 181: recent_bufos.add(match.name)
RecordPublish(recent, name) == recent \cup {name}

\* a loop that fetches the history for its first matched event only
RefreshOnceOnly(t, last) == last = 0

\* a refresh that is due as soon as the interval has passed
RefreshAtInterval(t, last) == t - last >= RefreshInterval

\* run_bot, line 171
RefreshDue(t, last) == t - last > RefreshInterval

\* the outcomes of quote_post_with_bufo: the stage that raised, or "ok"
PublishOutcomes ==
    {"fetch_failed", "upload_failed", "resolve_failed", "send_failed", "ok"}

\* the calls of quote_post_with_bufo that can raise, in the order it makes them:
\* httpx.get, client.upload_blob, client.app.bsky.feed.post.get (with
\* create_strong_ref) and client.send_post
PublishStages == <<"fetch", "upload", "resolve", "send">>

\* the position in PublishStages of the last call an attempt makes
LastStage(outcome) ==
    CASE outcome = "fetch_failed" -> 1
      [] outcome = "upload_failed" -> 2
      [] outcome = "resolve_failed" -> 3
      [] outcome \in {"send_failed", "ok"} -> 4

\* a publish that logs a failed stage and carries on with the next one
QuoteThroughFailures(outcome) == PublishStages

\* quote_post_with_bufo: the calls it makes when the attempt ends in outcome;
\* each except clause returns
quote_post_with_bufo(outcome) == SubSeq(PublishStages, 1, LastStage(outcome))

\* a refresh that adds the fetched names to the set it had
MergeFetched(old, fetched) == old \cup fetched

\* run_bot, line 172: recent_bufos = get_recent_bufo_names(...)
Refreshed(old, fetched) == fetched

\* a loop body that does not look at posting_enabled
NeverDisabled(s) == FALSE

\* run_bot, line 165: if not settings.posting_enabled
PostingDisabled(s) == ~s.posting_enabled

\* what one run of the loop body did (history): the matched name or <<>>, the
\* result ("crashed", "no_match", "disabled", "cooldown" or a publish outcome),
\* whether it refreshed, whether the history fetch failed, and the calls
\* quote_post_with_bufo made
Step(name, result, refreshed, fetch_failed) ==
    [name |-> name, result |-> result, refreshed |-> refreshed,
     fetch_failed |-> fetch_failed,
     calls |-> IF result \in PublishOutcomes
               THEN quote_post_with_bufo(result) ELSE <<>>]

NoStep == [name |-> <<>>, result |-> "none", refreshed |-> FALSE,
           fetch_failed |-> FALSE, calls |-> <<>>]

BotIdle ==
    /\ settings = [min_phrase_words |-> 0, posting_enabled |-> FALSE,
                   cooldown_minutes |-> 0]
    /\ pc = "idle"
    /\ cstate = "NotStarted"
    /\ post = NoPost
    /\ recent_bufos = {}
    /\ last_refresh = 0
    /\ now = 0
    /\ feed = <<>>
    /\ last_msg = NoMsg
    /\ failures = 0
    /\ delay = 0
    /\ handled = NoStep
    /\ invoked = {}
    /\ reinvoked = FALSE

EmbedIdle ==
    /\ max_retries = 0
    /\ n_frames = 0
    /\ attempt = 0
    /\ requests = 0
    /\ waits = <<>>
    /\ sent = <<>>
    /\ response = "none"
    /\ eresult = "pending"
    /\ epc = "idle"

(***************************************************************************)
(* PhraseSpec: extract_phrase applied to every file name built from at     *)
(* most MaxChunks chunks, its result rendered back to text and extracted   *)
(* again, and find_match's tokenization applied to the same text.          *)
(***************************************************************************)
Chunks ==
    { BUFO, <<"B","u","f","o">>, <<"v","2">>, <<"x">>,
      <<"-">>, <<"_">>, <<".">>, <<"p","n","g">> }

ChunkSeqs(n) == UNION { [1..k -> Chunks] : k \in 0..n }

Filenames == { Flatten(cs) : cs \in ChunkSeqs(MaxChunks) }

PhraseIdle ==
    /\ filename = <<>>
    /\ words = <<>>
    /\ phrase = <<>>
    /\ rendered = <<>>
    /\ phrase2 = <<>>
    /\ post_words = <<>>
    /\ ppc = "idle"

MatchIdle ==
    /\ bufos = <<>>
    /\ matcher = NoMatcher
    /\ post_text = <<>>
    /\ match = None
    /\ mpc = "idle"

PhraseInit ==
    /\ MatchIdle
    /\ BotIdle
    /\ EmbedIdle
    /\ filename \in Filenames
    /\ words = <<>>
    /\ phrase = <<>>
    /\ rendered = <<>>
    /\ phrase2 = <<>>
    /\ post_words = <<>>
    /\ ppc = "start"

\* phrase = extract_phrase(filename)
ExtractPhrase ==
    /\ ppc = "start"
    /\ words' = ExtractWords(filename)
    /\ phrase' = extract_phrase(filename)
    /\ ppc' = "extracted"
    /\ UNCHANGED <<filename, rendered, phrase2, post_words>>
    /\ UNCHANGED <<matchVars, botVars, embedVars>>

\* the phrase rendered back to text, as find_match does with " ".join(phrase)
\* and as a file name does with "-"
RenderPhrase(sep) ==
    /\ ppc = "extracted"
    /\ rendered' = Join(phrase, sep)
    /\ ppc' = "rendered"
    /\ UNCHANGED <<filename, words, phrase, phrase2, post_words>>
    /\ UNCHANGED <<matchVars, botVars, embedVars>>

\* phrase2 = extract_phrase(rendered)
ReExtractPhrase ==
    /\ ppc = "rendered"
    /\ phrase2' = extract_phrase(rendered)
    /\ ppc' = "reextracted"
    /\ UNCHANGED <<filename, words, phrase, rendered, post_words>>
    /\ UNCHANGED <<matchVars, botVars, embedVars>>

\* find_match's tokenization of the same text
TokenizePost ==
    /\ ppc = "reextracted"
    /\ post_words' = PostWords(filename)
    /\ ppc' = "done"
    /\ UNCHANGED <<filename, words, phrase, rendered, phrase2>>
    /\ UNCHANGED <<matchVars, botVars, embedVars>>

PhraseNext ==
    \/ ExtractPhrase
    \/ \E sep \in {" ", "-"} : RenderPhrase(sep)
    \/ ReExtractPhrase
    \/ TokenizePost

PhraseSpec == PhraseInit /\ [][PhraseNext]_vars

(***************************************************************************)
(* MatchSpec: a BufoMatcher built from every catalog of at most MaxCatalog *)
(* entries, and find_match applied to every text of at most MaxTextWords   *)
(* words.                                                                  *)
(***************************************************************************)
\* catalog entries: "bufo-a-b", "a-b-c.png", "bufo", "b_c", and "bufo-a-b"
\* once more under another url
CatalogEntries ==
    { Bufo(<<"b","u","f","o","-","a","-","b">>, "u1"),
      Bufo(<<"a","-","b","-","c",".","p","n","g">>, "u2"),
      Bufo(<<"b","u","f","o">>, "u3"),
      Bufo(<<"b","_","c">>, "u4"),
      Bufo(<<"b","u","f","o","-","a","-","b">>, "u5") }

Catalogs == UNION { [1..k -> CatalogEntries] : k \in 0..MaxCatalog }

\* settings.min_phrase_words as configured in the model
MinWordsChoices == {2, 3}

\* the words of a post text, each with the separator that follows it
TextWords ==
    { <<"a"," ">>, <<"b"," ">>, <<"c"," ">>, <<"X","!">> }

Texts == { Flatten(ws) : ws \in UNION { [1..k -> TextWords] : k \in 0..MaxTextWords } }

MatchInit ==
    /\ PhraseIdle
    /\ BotIdle
    /\ EmbedIdle
    /\ bufos \in Catalogs
    /\ matcher = NoMatcher
    /\ post_text = <<>>
    /\ match = None
    /\ mpc = "start"

\* matcher = BufoMatcher(bufos, min_words=...)
ConstructMatcher(min_words) ==
    /\ mpc = "start"
    /\ matcher' = NewMatcher(bufos, min_words)
    /\ mpc' = "ready"
    /\ UNCHANGED <<bufos, post_text, match>>
    /\ UNCHANGED <<phraseVars, botVars, embedVars>>

\* match = matcher.find_match(text)
FindMatch(text) ==
    /\ mpc = "ready"
    /\ post_text' = text
    /\ match' = find_match(matcher, text)
    /\ mpc' = "matched"
    /\ UNCHANGED <<bufos, matcher>>
    /\ UNCHANGED <<phraseVars, botVars, embedVars>>

\* the caller is done with the result; the matcher can be called again
DropMatch ==
    /\ mpc = "matched"
    /\ post_text' = <<>>
    /\ match' = None
    /\ mpc' = "ready"
    /\ UNCHANGED <<bufos, matcher>>
    /\ UNCHANGED <<phraseVars, botVars, embedVars>>

MatchNext ==
    \/ \E mw \in MinWordsChoices : ConstructMatcher(mw)
    \/ \E text \in Texts : FindMatch(text)
    \/ DropMatch

MatchSpec == MatchInit /\ [][MatchNext]_vars

(***************************************************************************)
(* Spec: run_bot.  The catalog is loaded, the matcher built, the client    *)
(* logged in, and the loop body runs once for every Post that stream_posts *)
(* yields.  The generator runs only while run_bot waits for its next item  *)
(* (pc = "streaming"); the process can be restarted at any time.           *)
(***************************************************************************)
\* what load_bufos returns: [] (the request failed, or no results), the
\* catalog "bufo", "bufo-a-b", or a catalog whose only name is "bufo"
LoadResults ==
    { <<>>,
      << Bufo(<<"b","u","f","o">>, "u3"),
         Bufo(<<"b","u","f","o","-","a","-","b">>, "u1") >>,
      << Bufo(<<"b","u","f","o">>, "u3") >> }

\* the settings of a run: min_phrase_words 2, cooldown_minutes 10, posting
\* enabled or not
SettingsChoices ==
    { [min_phrase_words |-> 2, posting_enabled |-> b, cooldown_minutes |-> 10] :
        b \in BOOLEAN }

\* post texts: "A b!" holds the phrase of "bufo-a-b", "a c b " holds its
\* words but not the phrase, "X!" has one word
BotTexts ==
    { <<"A"," ","b","!">>, <<"a"," ","c"," ","b"," ">>, <<"X","!">> }

\* the messages the subscription can deliver
BotMessages ==
    { Message("invalid", "", "absent", "", "", "absent", Absent),
      Message("array", "", "absent", "", "", "absent", Absent),
      Message("object", "identity", "absent", "", "", "absent", Absent),
      Message("object", "commit", "absent", "", "", "absent", Absent),
      Message("object", "commit", "nonobject", "", "", "absent", Absent),
      Message("object", "commit", "object", "delete", PostsCollection, "absent", Absent),
      Message("object", "commit", "object", "update", PostsCollection, "object",
              Str(<<"a"," ","b"," ">>)),
      Message("object", "commit", "object", "create", "other.collection", "object",
              Str(<<"a"," ","b"," ">>)),
      Message("object", "commit", "object", "create", PostsCollection, "absent", Absent),
      Message("object", "commit", "object", "create", PostsCollection, "nonobject", Absent) }
    \cup
    { Message("object", "commit", "object", "create", PostsCollection, "object", t) :
        t \in {Num(0), Num(7), Str(<<>>)} \cup {Str(x) : x \in BotTexts} }

Init ==
    /\ PhraseIdle
    /\ MatchIdle
    /\ EmbedIdle
    /\ settings \in SettingsChoices
    /\ pc = "start"
    /\ cstate = "NotStarted"
    /\ post = NoPost
    /\ recent_bufos = {}
    /\ last_refresh = 0
    /\ now = StartTime
    /\ feed = <<>>
    /\ last_msg = NoMsg
    /\ failures = 0
    /\ delay = 0
    /\ handled = NoStep
    /\ invoked = {}
    /\ reinvoked = FALSE

\* a startup that goes on with whatever load_bufos returned
ProceedsAnyway(result) == "loaded"

\* run_bot, lines 140-142: if not bufos: return
AfterLoad(result) == IF result = <<>> THEN "exited" ELSE "loaded"

\* run_bot, lines 139-142: bufos = load_bufos(); if not bufos: return
LoadBufos(result) ==
    /\ pc = "start"
    /\ bufos' = result
    /\ pc' = AfterLoad(result)
    /\ UNCHANGED <<matcher, post_text, match, mpc>>
    /\ handled' = NoStep
    /\ UNCHANGED <<settings, cstate, post, recent_bufos, last_refresh, now, feed,
                   last_msg, failures, delay, invoked, reinvoked>>
    /\ UNCHANGED <<phraseVars, embedVars>>

\* run_bot, lines 145-160: the matcher, the login (which can raise), the
\* JetstreamClient, the empty cooldown set, and the first next() on the
\* generator, which starts connecting
StartUp(login_ok) ==
    /\ pc = "loaded"
    /\ matcher' = NewMatcher(bufos, settings.min_phrase_words)
    /\ IF login_ok
       THEN pc' = "streaming" /\ cstate' = "Connecting"
       ELSE pc' = "crashed" /\ cstate' = "NotStarted"
    /\ recent_bufos' = {}
    /\ last_refresh' = 0
    /\ UNCHANGED <<bufos, post_text, match, mpc>>
    /\ handled' = NoStep
    /\ delay' = 0
    /\ UNCHANGED <<settings, post, now, feed, last_msg, failures, invoked, reinvoked>>
    /\ UNCHANGED <<phraseVars, embedVars>>

\* the consumer failed f times in a row and fails again
CountFailure(f) == IF f < MaxFailures THEN f + 1 ELSE f

\* stream_posts, line 40: connect_ws(self.url) opens the subscription or raises
Connect(ok) ==
    /\ pc = "streaming"
    /\ cstate = "Connecting"
    /\ cstate' = IF ok THEN "Connected" ELSE AfterFailure("connect")
    /\ failures' = IF ok THEN 0 ELSE CountFailure(failures)
    /\ last_msg' = NoMsg
    /\ handled' = NoStep
    /\ UNCHANGED <<settings, pc, post, recent_bufos, last_refresh, now, feed,
                   delay, invoked, reinvoked>>
    /\ UNCHANGED <<phraseVars, matchVars, embedVars>>

\* a consumer on a thread of its own, reading ahead of the loop body
ReadsAhead(p) == p \in {"streaming", "handling"}

\* main.py line 160 and jetstream.py line 56: stream_posts is a generator, its
\* body runs only while run_bot is waiting in next() for the following Post
GeneratorResumed(p) == p = "streaming"

\* stream_posts, lines 44-63: one message is received and skipped, yielded as
\* a Post, or raises out of the connection
ReceiveMessage(msg) ==
    /\ GeneratorResumed(pc)
    /\ cstate = "Connected"
    /\ last_msg' = msg
    /\ handled' = NoStep
    /\ CASE Classify(msg) = "skip" ->
              UNCHANGED <<pc, cstate, post, failures>>
         [] Classify(msg) = "yield" ->
              /\ post' = Post(msg.did, msg.rkey, msg.text)
              /\ pc' = "handling"
              /\ UNCHANGED <<cstate, failures>>
         [] Classify(msg) = "error" ->
              /\ cstate' = AfterFailure("message")
              /\ failures' = CountFailure(failures)
              /\ UNCHANGED <<pc, post>>
    /\ UNCHANGED <<settings, recent_bufos, last_refresh, now, feed, delay, invoked,
                   reinvoked>>
    /\ UNCHANGED <<phraseVars, matchVars, embedVars>>

\* stream_posts, line 44: ws.receive_text() raises (the connection dropped)
ConnectionLost ==
    /\ pc = "streaming"
    /\ cstate = "Connected"
    /\ cstate' = AfterFailure("receive")
    /\ failures' = CountFailure(failures)
    /\ last_msg' = NoMsg
    /\ handled' = NoStep
    /\ UNCHANGED <<settings, pc, post, recent_bufos, last_refresh, now, feed,
                   delay, invoked, reinvoked>>
    /\ UNCHANGED <<phraseVars, matchVars, embedVars>>

\* stream_posts, lines 66 and 37: time.sleep(5) returns and the loop goes round
Reconnect ==
    /\ pc = "streaming"
    /\ cstate = "Disconnected"
    /\ cstate' = "Connecting"
    /\ delay' = ReconnectDelay
    /\ last_msg' = NoMsg
    /\ handled' = NoStep
    /\ UNCHANGED <<settings, pc, post, recent_bufos, last_refresh, now, feed,
                   failures, invoked, reinvoked>>
    /\ UNCHANGED <<phraseVars, matchVars, embedVars>>

\* run_bot goes back to the generator for the next Post
NextPost ==
    /\ pc' = "streaming"
    /\ post' = NoPost
    /\ last_msg' = NoMsg

\* run_bot, lines 161-181: the loop body for the yielded Post.  fetch_ok and
\* outcome are what the network does if the body comes to refresh and to
\* publish.
HandlePost(fetch_ok, outcome) ==
    /\ pc = "handling"
    /\ IF post.text.type # "str"
       THEN \* post_text.lower() raises AttributeError out of run_bot
            /\ pc' = "crashed"
            /\ cstate' = "Closed"
            /\ handled' = Step(<<>>, "crashed", FALSE, FALSE)
            /\ UNCHANGED <<post, last_msg, recent_bufos, last_refresh, feed,
                           invoked, reinvoked>>
       ELSE LET m == find_match(matcher, post.text.chars)
            IN  IF m = None \/ PostingDisabled(settings)
                THEN /\ NextPost
                     /\ handled' = IF m = None
                                   THEN Step(<<>>, "no_match", FALSE, FALSE)
                                   ELSE Step(m.name, "disabled", FALSE, FALSE)
                     /\ UNCHANGED <<cstate, recent_bufos, last_refresh, feed,
                                    invoked, reinvoked>>
                ELSE LET due == RefreshDue(now, last_refresh)
                         recent == IF due
                                   THEN Refreshed(recent_bufos,
                                            get_recent_bufo_names(
                                                feed, now, settings.cooldown_minutes,
                                                fetch_ok))
                                   ELSE recent_bufos
                         called == IF due THEN {} ELSE invoked
                     IN  /\ NextPost
                         /\ last_refresh' = IF due THEN now ELSE last_refresh
                         /\ UNCHANGED cstate
                         /\ IF m.name \in recent
                            THEN \* cooldown: skip
                                 /\ handled' = Step(m.name, "cooldown", due, due /\ ~fetch_ok)
                                 /\ recent_bufos' = recent
                                 /\ invoked' = called
                                 /\ UNCHANGED <<feed, reinvoked>>
                            ELSE \* quote_post_with_bufo, then the local insert
                                 /\ outcome = "ok" => Len(feed) < MaxPosts
                                 /\ handled' = Step(m.name, outcome, due, due /\ ~fetch_ok)
                                 /\ feed' = IF outcome = "ok"
                                            THEN <<BotPost(m.name, now)>> \o feed
                                            ELSE feed
                                 /\ recent_bufos' = RecordPublish(recent, m.name)
                                 /\ invoked' = called \cup {m.name}
                                 /\ reinvoked' = (reinvoked \/ m.name \in called)
    /\ UNCHANGED <<settings, now, failures, delay>>
    /\ UNCHANGED <<phraseVars, matchVars, embedVars>>

\* the clock advances while run_bot waits for the next Post
Tick ==
    /\ pc = "streaming"
    /\ now + TickUnit <= StartTime + MaxTicks * TickUnit
    /\ now' = now + TickUnit
    /\ handled' = NoStep
    /\ UNCHANGED <<settings, pc, cstate, post, recent_bufos, last_refresh, feed,
                   last_msg, failures, delay, invoked, reinvoked>>
    /\ UNCHANGED <<phraseVars, matchVars, embedVars>>

\* the process is stopped and started again: run_bot's state is lost, the
\* clock and the account's posts are not
Restart ==
    /\ pc # "start"
    /\ pc' = "start"
    /\ cstate' = "NotStarted"
    /\ bufos' = <<>>
    /\ matcher' = NoMatcher
    /\ post' = NoPost
    /\ recent_bufos' = {}
    /\ last_refresh' = 0
    /\ last_msg' = NoMsg
    /\ failures' = 0
    /\ delay' = 0
    /\ handled' = NoStep
    /\ invoked' = {}
    /\ UNCHANGED <<post_text, match, mpc>>
    /\ UNCHANGED <<settings, now, feed, reinvoked>>
    /\ UNCHANGED <<phraseVars, embedVars>>

Next ==
    \/ \E result \in LoadResults : LoadBufos(result)
    \/ \E login_ok \in BOOLEAN : StartUp(login_ok)
    \/ \E ok \in BOOLEAN : Connect(ok)
    \/ \E msg \in BotMessages : ReceiveMessage(msg)
    \/ ConnectionLost
    \/ Reconnect
    \/ \E fetch_ok \in BOOLEAN, outcome \in PublishOutcomes : HandlePost(fetch_ok, outcome)
    \/ Tick
    \/ Restart

Spec == Init /\ [][Next]_vars

\* time.sleep(5) returns
FairSpec == Spec /\ WF_vars(Reconnect)

\* the messages of a subscription that honours wantedCollections: every
\* commit it delivers is in the posts collection
WantedMessages ==
    { msg \in BotMessages :
        (msg.json = "object" /\ msg.kind = "commit" /\ msg.commit = "object")
            => msg.collection = PostsCollection }

\* run_bot on a network that behaves: the history fetch never fails and the
\* subscription delivers the wanted collection only
FaithfulNext ==
    \/ \E result \in LoadResults : LoadBufos(result)
    \/ \E login_ok \in BOOLEAN : StartUp(login_ok)
    \/ \E ok \in BOOLEAN : Connect(ok)
    \/ \E msg \in WantedMessages : ReceiveMessage(msg)
    \/ ConnectionLost
    \/ Reconnect
    \/ \E outcome \in PublishOutcomes : HandlePost(TRUE, outcome)
    \/ Tick
    \/ Restart

FaithfulSpec == Init /\ [][FaithfulNext]_vars

(***************************************************************************)
(* HistorySpec: one call of get_recent_bufo_names on an account history of *)
(* at most MaxHistory posts, alone or behind FeedLimit - 1 newer posts.    *)
(***************************************************************************)
\* the record of one post of the account, as get_author_feed returns it
HistoryPost(created, alts) == [created_at |-> created, alts |-> alts]

\* posts of the history: created 100 s ago, exactly cooldown_minutes ago or
\* 100 s earlier than that, with the alt text "bufo a b", "c" or "", or with
\* a created_at string that does not parse
HistoryItems ==
    { HistoryPost(Iso(StartTime - age), <<alt>>) :
        age \in {TickUnit, 6 * TickUnit, 7 * TickUnit},
        alt \in { <<"b","u","f","o"," ","a"," ","b">>, <<"c">>, <<>> } }
    \cup { HistoryPost([type |-> "badstr"], << <<"c">> >>) }

\* n posts created now, each with the alt text "f"
RECURSIVE Newer(_)
Newer(n) ==
    IF n = 0 THEN <<>> ELSE <<HistoryPost(Iso(StartTime), << <<"f">> >>)>> \o Newer(n - 1)

HistorySeqs(n) == UNION { [1..k -> HistoryItems] : k \in 0..n }

Histories ==
    { Newer(n) \o h : n \in {0, FeedLimit - 1}, h \in HistorySeqs(MaxHistory) }

HistoryInit ==
    /\ PhraseIdle
    /\ MatchIdle
    /\ EmbedIdle
    /\ settings \in { c \in SettingsChoices : c.posting_enabled }
    /\ pc = "history"
    /\ cstate = "NotStarted"
    /\ post = NoPost
    /\ recent_bufos = {}
    /\ last_refresh = 0
    /\ now = StartTime
    /\ feed \in Histories
    /\ last_msg = NoMsg
    /\ failures = 0
    /\ delay = 0
    /\ handled = NoStep
    /\ invoked = {}
    /\ reinvoked = FALSE

\* run_bot, lines 172-173: get_recent_bufo_names is called and returns
FetchHistory(fetch_ok) ==
    /\ pc = "history"
    /\ recent_bufos' = Refreshed(recent_bufos,
                            get_recent_bufo_names(feed, now, settings.cooldown_minutes,
                                                  fetch_ok))
    /\ last_refresh' = now
    /\ handled' = [NoStep EXCEPT !.refreshed = TRUE, !.fetch_failed = ~fetch_ok]
    /\ pc' = "fetched"
    /\ UNCHANGED <<settings, cstate, post, now, feed, last_msg, failures, delay,
                   invoked, reinvoked>>
    /\ UNCHANGED <<phraseVars, matchVars, embedVars>>

\* the set is dropped and the same history can be fetched again
ForgetHistory ==
    /\ pc = "fetched"
    /\ pc' = "history"
    /\ recent_bufos' = {}
    /\ last_refresh' = 0
    /\ handled' = NoStep
    /\ UNCHANGED <<settings, cstate, post, now, feed, last_msg, failures, delay,
                   invoked, reinvoked>>
    /\ UNCHANGED <<phraseVars, matchVars, embedVars>>

HistoryNext ==
    \/ \E fetch_ok \in BOOLEAN : FetchHistory(fetch_ok)
    \/ ForgetHistory

HistorySpec == HistoryInit /\ [][HistoryNext]_vars

(***************************************************************************)
(* EmbedSpec: scripts/ingest_bufos.py, one call of embed_image.  Each step *)
(* is one iteration of its retry loop: the image is opened and encoded,    *)
(* the request is sent, and the iteration returns or sleeps and goes on.   *)
(***************************************************************************)
FrameCap == 5               \* max_frames = min(5, num_frames)

\* how an iteration can end: Image.open or the encoding raises before the
\* request ("open_failed"), client.post raises ("transport_error"), the
\* status is 429, 400 or 500, or it is 200 with or without the embedding in
\* the body ("ok", "bad_body")
Responses ==
    {"open_failed", "transport_error", "429", "400", "500", "bad_body", "ok"}

\* the iteration ended before client.post was called
NoRequest(r) == r = "open_failed"

\* embed_image, lines 126-155: the frames put into the content of a request,
\* up to FrameCap of them spread evenly over an animated image, frame 0 of a
\* static one
FrameIndices(n) ==
    IF n > 1
    THEN LET max_frames == IF n < FrameCap THEN n ELSE FrameCap
         IN  [k \in 1..max_frames |-> ((k - 1) * (n - 1)) \div (max_frames - 1)]
    ELSE <<0>>

\* embed_image, line 174: wait_time = (2 ** attempt) * 2
WaitTime(a) == (2 ^ a) * 2

\* a retry loop that sleeps and continues after every 429
RetryAlways(a, retries) == TRUE

\* embed_image, line 175: if attempt < max_retries - 1
RetryAllowed(a, retries) == a < retries - 1

EmbedInit ==
    /\ PhraseIdle
    /\ MatchIdle
    /\ BotIdle
    /\ max_retries \in 0..MaxRetries
    /\ n_frames \in 0..MaxImageFrames
    /\ attempt = 0
    /\ requests = 0
    /\ waits = <<>>
    /\ sent = <<>>
    /\ response = "none"
    /\ eresult = "pending"
    /\ epc = "loop"

\* embed_image, lines 121-184: one iteration of the for loop, ending as r
EmbedAttempt(r) ==
    /\ epc = "loop"
    /\ attempt < max_retries
    /\ (n_frames = 0) = (r = "open_failed")
    /\ response' = r
    /\ requests' = IF NoRequest(r) THEN requests ELSE requests + 1
    /\ sent' = IF NoRequest(r) THEN sent ELSE FrameIndices(n_frames)
    /\ IF r = "ok"
       THEN \* return result["data"][0]["embedding"]
            /\ eresult' = "embedding"
            /\ epc' = "returned"
            /\ UNCHANGED <<attempt, waits>>
       ELSE IF r = "429" /\ RetryAllowed(attempt, max_retries)
       THEN \* await asyncio.sleep(wait_time); continue
            /\ waits' = Append(waits, WaitTime(attempt))
            /\ attempt' = attempt + 1
            /\ UNCHANGED <<eresult, epc>>
       ELSE \* both except clauses print the error and return None
            /\ eresult' = "None"
            /\ epc' = "returned"
            /\ UNCHANGED <<attempt, waits>>
    /\ UNCHANGED <<max_retries, n_frames>>
    /\ UNCHANGED <<phraseVars, matchVars, botVars>>

\* embed_image, line 185: range(max_retries) is used up, return None
EmbedLoopEnds ==
    /\ epc = "loop"
    /\ attempt >= max_retries
    /\ eresult' = "None"
    /\ epc' = "returned"
    /\ response' = "none"
    /\ UNCHANGED <<max_retries, n_frames, attempt, requests, waits, sent>>
    /\ UNCHANGED <<phraseVars, matchVars, botVars>>

EmbedNext ==
    \/ \E r \in Responses : EmbedAttempt(r)
    \/ EmbedLoopEnds

EmbedSpec == EmbedInit /\ [][EmbedNext]_vars

\* every await of embed_image returns: the request has a timeout and the
\* sleep is finite
FairEmbedSpec == EmbedSpec /\ WF_vars(EmbedNext)

(***************************************************************************)
(* Claims about extract_phrase and the tokenization (PhraseSpec).          *)
(***************************************************************************)
StartsWithBufo(ws) == ws # <<>> /\ ws[1] = BUFO

\* the text extract_phrase tokenizes
Stem(name) == Lower(SubSeparators(RSplitFirst(name)))

\* the maximal runs of lowercase letters of s, as pairs of positions: a run
\* starts at a letter that follows no letter and ends before the next
\* character that is not a letter
RunStarts(s) ==
    { i \in 1..Len(s) :
        IsLowerLetter(s[i]) /\ (i = 1 \/ ~IsLowerLetter(s[i - 1])) }

RunEnd(s, i) ==
    CHOOSE j \in i..Len(s) :
        /\ j = Len(s) \/ ~IsLowerLetter(s[j + 1])
        /\ \A k \in i..j : IsLowerLetter(s[k])

LetterRuns(s) == { <<i, RunEnd(s, i)>> : i \in RunStarts(s) }

\* ws is exactly the maximal letter runs of s: nothing but the letters of s,
\* all of them, cut where s holds a character that is not a letter
IsLetterRunsOf(ws, s) ==
    /\ Len(ws) = Cardinality(LetterRuns(s))
    /\ Flatten(ws) = SelectSeq(s, IsLowerLetter)
    /\ \A r \in LetterRuns(s) : \E k \in 1..Len(ws) : ws[k] = SubSeq(s, r[1], r[2])

\* s holds the segment "v2": a "v" that starts a run of letters, then a "2"
HoldsV2(s) ==
    \E i \in 1..(Len(s) - 1) :
        /\ s[i] = "v" /\ s[i + 1] = "2"
        /\ i = 1 \/ ~IsLowerLetter(s[i - 1])

\* C9 (as stated): rendering extract_phrase(x) back to text, joined by a space
\* or a hyphen, and extracting again yields the same tokens, for every x.
C9_IdempotentForEveryName ==
    ppc \in {"reextracted", "done"} => phrase2 = phrase

\* C9 (amended): extract_phrase strips exactly one leading "bufo" token when
\* the tokens start with one (never two) and nothing otherwise; rendering the
\* result and extracting again yields the same tokens whenever the result
\* does not itself start with "bufo", and strips one more "bufo" when it does.
C9_StripsOneBufoIdempotentOtherwise ==
    /\ ppc # "start" =>
          /\ Len(words) - Len(phrase) = (IF StartsWithBufo(words) THEN 1 ELSE 0)
          /\ phrase = SubSeq(words, Len(words) - Len(phrase) + 1, Len(words))
    /\ ppc \in {"reextracted", "done"} =>
          /\ ~StartsWithBufo(phrase) => phrase2 = phrase
          /\ StartsWithBufo(phrase) => phrase2 = Tail(phrase)

\* a name with one leading "bufo" whose non-empty phrase, rendered with
\* hyphens, extracts to itself
C9_Witness ==
    /\ ppc = "done"
    /\ StartsWithBufo(words)
    /\ Len(phrase) >= 2
    /\ "-" \in Range(rendered)
    /\ phrase2 = phrase

\* C10 (as stated): digits and punctuation are separators and a segment that
\* holds a digit, such as "v2", contributes no token at all.
C10_DigitSegmentYieldsNoToken ==
    /\ ppc # "start" => words = FindAllDroppingDigitRuns(Stem(filename))
    /\ ppc = "done" => post_words = FindAllDroppingDigitRuns(Lower(filename))

\* C10 (amended): digits and punctuation are separators and are themselves
\* dropped, but the letters next to them are kept: the tokens are exactly the
\* maximal runs of letters, so "v2" contributes the token "v".
C10_TokensAreLetterRuns ==
    /\ ppc # "start" =>
          /\ IsLetterRunsOf(words, Stem(filename))
          /\ HoldsV2(Stem(filename)) => <<"v">> \in Range(words)
    /\ ppc = "done" =>
          /\ IsLetterRunsOf(post_words, Lower(filename))
          /\ HoldsV2(Lower(filename)) => <<"v">> \in Range(post_words)

\* a name with a "v2" segment whose phrase and post tokens hold "v"
C10_Witness ==
    /\ ppc = "done"
    /\ HoldsV2(filename)
    /\ <<"v">> \in Range(phrase)
    /\ <<"v">> \in Range(post_words)

(***************************************************************************)
(* Claims about find_match (MatchSpec).                                    *)
(***************************************************************************)
\* phr occurs in pw as a contiguous run
Occurs(phr, pw) ==
    \E off \in 0..Len(pw) :
        /\ off + Len(phr) <= Len(pw)
        /\ \A j \in 1..Len(phr) : pw[off + j] = phr[j]

\* the words of phr occur in pw in order, possibly with words in between
RECURSIVE OccursScattered(_, _)
OccursScattered(phr, pw) ==
    IF phr = <<>> THEN TRUE
    ELSE IF pw = <<>> THEN FALSE
    ELSE OccursScattered(IF pw[1] = phr[1] THEN Tail(phr) ELSE phr, Tail(pw))

\* the catalog positions whose phrase occurs in the post
OccurringEntries(text) ==
    { i \in 1..Len(bufos) : Occurs(extract_phrase(bufos[i].name), PostWords(text)) }

\* the catalog positions whose phrase is long enough to be indexed
IndexedEntries == { i \in 1..Len(bufos) :
                      Len(extract_phrase(bufos[i].name)) >= matcher.min_words }

Least(S) == CHOOSE i \in S : \A j \in S : i <= j

MatchIs(i) ==
    match = BufoMatch(bufos[i].name, bufos[i].url,
                      Join(extract_phrase(bufos[i].name), " "))

\* C6 (as stated): when the text contains the phrase of an indexed entry, the
\* match is the first entry in catalog load order whose phrase occurs in it.
C6_FirstCatalogEntryWins ==
    (mpc = "matched" /\ OccurringEntries(post_text) \cap IndexedEntries # {}) =>
        MatchIs(Least(OccurringEntries(post_text)))

\* C6 (amended): when the text contains the phrase of an indexed entry,
\* find_match returns a match (never none) whose phrase is the space-joined
\* tokens and whose entry is the first entry, in catalog load order, among
\* those in the index (phrase of at least minWords tokens) whose phrase
\* occurs contiguously in the text, whatever the phrases' lengths.
C6_FirstIndexedEntryWins ==
    (mpc = "matched" /\ OccurringEntries(post_text) \cap IndexedEntries # {}) =>
        /\ match # None
        /\ MatchIs(Least(OccurringEntries(post_text) \cap IndexedEntries))

\* two indexed phrases occur in the text and the earlier entry is returned
\* although a later entry has the longer phrase
C6_Witness ==
    /\ mpc = "matched"
    /\ Cardinality(OccurringEntries(post_text) \cap IndexedEntries) >= 2
    /\ match # None
    /\ \E i \in OccurringEntries(post_text) \cap IndexedEntries :
          Len(extract_phrase(bufos[i].name)) > Len(FindAll(match.phrase))

\* C7: find_match returns none for a text with fewer than minWords tokens and
\* for a text in which no indexed phrase occurs as a contiguous run.
C7_NoneWithoutContiguousPhrase ==
    (/\ mpc = "matched"
     /\ \/ Len(PostWords(post_text)) < matcher.min_words
        \/ \A k \in 1..Len(matcher.bufos) :
              ~Occurs(matcher.bufos[k].phrase, PostWords(post_text)))
    => match = None

\* a text with enough words that holds all words of an indexed phrase in
\* order, but not next to each other, and gets no match
C7_Witness ==
    /\ mpc = "matched"
    /\ match = None
    /\ Len(PostWords(post_text)) >= matcher.min_words
    /\ \E k \in 1..Len(matcher.bufos) :
          /\ OccursScattered(matcher.bufos[k].phrase, PostWords(post_text))
          /\ ~Occurs(matcher.bufos[k].phrase, PostWords(post_text))

\* C8: a returned match carries the space-joined phrase of an index entry
\* that occurs contiguously in the tokenized text, and that entry's name
\* and url.
C8_MatchIsAnIndexedContiguousPhrase ==
    (mpc = "matched" /\ match # None) =>
        \E k \in 1..Len(matcher.bufos) :
            /\ match.phrase = Join(matcher.bufos[k].phrase, " ")
            /\ Occurs(matcher.bufos[k].phrase, PostWords(post_text))
            /\ Len(matcher.bufos[k].phrase) >= matcher.min_words
            /\ match.name = matcher.bufos[k].bufo.name
            /\ match.url = matcher.bufos[k].bufo.url

\* a match on the second entry of the index
C8_Witness ==
    /\ mpc = "matched"
    /\ match # None
    /\ Len(matcher.bufos) >= 2
    /\ match.url = matcher.bufos[2].bufo.url
    /\ match.url # matcher.bufos[1].bufo.url

(***************************************************************************)
(* Claims about run_bot and stream_posts (Spec, FairSpec).                 *)
(***************************************************************************)
\* C1: with posting enabled, a name recorded as published stays in the
\* cooldown set until the next refresh replaces the set, and of two matched
\* events for one image with no refresh between them the publish collaborator
\* is invoked for the first only.
C1_RecordedNameSuppressesUntilRefresh ==
    /\ invoked \subseteq recent_bufos
    /\ ~reinvoked

\* the second event for an image published since the last refresh was
\* handled without a refresh and skipped on cooldown
C1_Witness ==
    /\ handled.result = "cooldown"
    /\ ~handled.refreshed
    /\ invoked # {}
    /\ feed # <<>>

\* C2: with posting enabled, an image that was published is not published
\* again within cooldownMinutes, over any events, refreshes and restarts.
C2_NoRepublishWithinCooldown ==
    \A i, j \in 1..Len(feed) :
        (i < j /\ feed[i].alts = feed[j].alts) =>
            feed[i].created_at.ts - feed[j].created_at.ts
                >= settings.cooldown_minutes * 60

\* C3: every yielded Post comes from a message of kind "commit" whose
\* operation is "create", whose collection is the posts collection and whose
\* record text is non-empty.
C3_YieldedOnlyFromPostCreates ==
    pc = "handling" =>
        /\ last_msg.json = "object"
        /\ last_msg.kind = "commit"
        /\ last_msg.operation = "create"
        /\ last_msg.collection = PostsCollection
        /\ Truthy(last_msg.text)
        /\ post = Post(last_msg.did, last_msg.rkey, last_msg.text)

\* a message that is not JSON, or JSON without the expected object shape
Malformed(msg) ==
    \/ msg.json \in {"invalid", "array"}
    \/ msg.json = "object" /\ "nonobject" \in {msg.commit, msg.record}

\* C4: a malformed message only skips that message: the consumer yields
\* nothing for it and is still connected, reading the same subscription.
C4_MalformedMessageOnlySkips ==
    Malformed(last_msg) =>
        /\ cstate = "Connected"
        /\ pc = "streaming"
        /\ post = NoPost

\* C5: stream_posts never ends, a failed connect or a failure while connected
\* takes it to Disconnected, and from Disconnected it always goes back to
\* Connecting unless the process is stopped.
C5_ConsumerNeverGivesUp ==
    /\ [](cstate \in {"NotStarted", "Connecting", "Connected", "Disconnected", "Closed"})
    /\ [][(/\ pc = "streaming" /\ pc' = "streaming"
           /\ cstate \in {"Connecting", "Connected"}
           /\ cstate' \notin {cstate, "Connected"})
          => cstate' = "Disconnected"]_vars
    /\ [](cstate = "Disconnected" => <>(cstate \in {"Connecting", "NotStarted"}))

\* the consumer is connecting again after MaxFailures failures in a row
C5_Witness ==
    /\ cstate = "Connecting"
    /\ failures = MaxFailures

(***************************************************************************)
(* Claims about the loop body of run_bot (Spec).                           *)
(***************************************************************************)
\* the outcomes of a publish attempt that posted nothing
FailedOutcomes == PublishOutcomes \ {"ok"}

\* C11: with posting disabled, whatever events arrive, the loop never calls
\* the publish collaborator, never fetches the history, leaves the cooldown
\* set and last_refresh as they were set at startup, and after a matched
\* event goes on to the next one.
C11_DisabledNeverPublishesNorRefreshes ==
    ~settings.posting_enabled =>
        /\ handled.result \notin PublishOutcomes \cup {"cooldown"}
        /\ handled.calls = <<>>
        /\ ~handled.refreshed
        /\ invoked = {}
        /\ feed = <<>>
        /\ recent_bufos = {}
        /\ last_refresh = 0
        /\ handled.result \in {"disabled", "no_match"} =>
              pc = "streaming" /\ post = NoPost /\ cstate = "Connected"

\* with posting disabled a matching event was handled and the loop waits for
\* the next one
C11_Witness ==
    /\ ~settings.posting_enabled
    /\ handled.result = "disabled"
    /\ handled.name # <<>>
    /\ pc = "streaming"

\* C12: a failure at any stage of a publish attempt aborts only that attempt:
\* the stages after the failed one are not executed, send_post is called only
\* when fetch, upload and resolve succeeded, nothing is posted, the event is
\* not retried, and the loop goes on to the next event.
C12_FailedStageAbortsOnlyTheAttempt ==
    /\ [](/\ handled.result = "fetch_failed" => handled.calls = <<"fetch">>
          /\ handled.result = "upload_failed" => handled.calls = <<"fetch", "upload">>
          /\ handled.result = "resolve_failed" =>
                handled.calls = <<"fetch", "upload", "resolve">>
          /\ "send" \in Range(handled.calls) => handled.result \in {"send_failed", "ok"}
          /\ handled.result \in FailedOutcomes =>
                pc = "streaming" /\ post = NoPost /\ cstate = "Connected")
    /\ [][handled'.result \in FailedOutcomes => feed' = feed]_vars

\* an attempt failed at post resolution after two stages succeeded, and the
\* loop waits for the next event
C12_Witness ==
    /\ handled.result = "resolve_failed"
    /\ Len(handled.calls) = 3
    /\ pc = "streaming"
    /\ cstate = "Connected"

\* C13: when the history fetch of a refresh fails, the refresh yields the
\* empty set and nothing of a partially built one: the cooldown set holds
\* afterwards only the name of the current event, which is not skipped on
\* cooldown but handed to the publish collaborator, and the loop goes on.
C13_FailedFetchFailsOpen ==
    handled.fetch_failed =>
        /\ handled.refreshed
        /\ handled.result \in PublishOutcomes
        /\ handled.calls # <<>>
        /\ recent_bufos = {handled.name}
        /\ last_refresh = now
        /\ pc = "streaming"
        /\ cstate = "Connected"

\* the fetch failed while the account held a post of the image within the
\* cooldown window, and the image was published again
C13_Witness ==
    /\ handled.fetch_failed
    /\ handled.result = "ok"
    /\ Len(feed) = 2
    /\ feed[1].alts = feed[2].alts
    /\ feed[1].created_at.ts - feed[2].created_at.ts < settings.cooldown_minutes * 60

(***************************************************************************)
(* Claims about the startup and the lifetime of run_bot (Spec).            *)
(***************************************************************************)
\* C14: when load_bufos returns no entries (the request failed, or the
\* catalog is empty), run_bot ends at once: no matcher, no login, no feed
\* subscription, no history fetch and no publish, and nothing follows but a
\* restart of the process.
C14_EmptyCatalogIsFatal ==
    /\ []((pc # "start" /\ bufos = <<>>) =>
             /\ pc = "exited"
             /\ matcher = NoMatcher
             /\ cstate = "NotStarted"
             /\ post = NoPost
             /\ handled = NoStep
             /\ recent_bufos = {}
             /\ last_refresh = 0)
    /\ [][pc = "exited" => (pc' = "start" /\ feed' = feed /\ cstate' = "NotStarted")]_vars

\* run_bot has returned on an empty catalog
C14_Witness ==
    /\ pc = "exited"
    /\ bufos = <<>>
    /\ cstate = "NotStarted"

\* C15: within a run of run_bot the history is fetched at most once per
\* refresh interval: a refresh happens only when more than RefreshInterval
\* seconds have passed since the previous one (which set last_refresh whether
\* or not its fetch succeeded), an event that arrives within the interval
\* never refreshes, and nothing but a refresh moves last_refresh.
C15_RefreshesMoreThanAnIntervalApart ==
    /\ [][handled'.refreshed =>
             /\ now - last_refresh > RefreshInterval
             /\ last_refresh' = now]_vars
    /\ [][(pc = "handling" /\ pc' # "start" /\ now - last_refresh <= RefreshInterval) =>
             /\ ~handled'.refreshed
             /\ last_refresh' = last_refresh]_vars
    /\ [][last_refresh' # last_refresh => (handled'.refreshed \/ pc' = "start")]_vars

\* a matched event arrived exactly RefreshInterval seconds after the previous
\* refresh and was handled without one
C15_Witness ==
    /\ handled.result \in PublishOutcomes \cup {"cooldown"}
    /\ ~handled.refreshed
    /\ last_refresh > 0
    /\ now - last_refresh = RefreshInterval

\* C16: once the loop has started, no feed message, transport failure,
\* publish failure or history-fetch failure ends run_bot: it has returned or
\* raised only if it never asked for the subscription.
C16_NoErrorEndsTheLoop ==
    /\ pc \in {"exited", "crashed"} => cstate = "NotStarted"
    /\ handled.result # "crashed"

\* C17: the cooldown set changes only by the insert of a name whose publish
\* has just succeeded and by a refresh; a publish attempt that failed leaves
\* it as it was, so the name of the attempt (which was not in the set, or the
\* event would have been skipped) is not in it afterwards.
C17_FailedPublishLeavesSetUnchanged ==
    handled.result \in FailedOutcomes => handled.name \notin recent_bufos

\* what a refresh at time t can fetch from the account's posts: the scanned
\* history, or nothing when the fetch failed
Fetchable(posts, t) ==
    { get_recent_bufo_names(posts, t, settings.cooldown_minutes, ok) : ok \in BOOLEAN }

\* C18: between two refreshes of a run the cooldown set only grows, and a
\* refresh replaces it as a whole: the cooldown check of the refreshing event
\* sees exactly the fetched set, and the set afterwards is the fetched set
\* plus at most the name of that event, with nothing left of the old contents.
C18_GrowsBetweenRefreshesReplacedAtomically ==
    /\ [][(pc' # "start" /\ ~handled'.refreshed) => recent_bufos \subseteq recent_bufos']_vars
    /\ [][handled'.refreshed =>
             \E fetched \in Fetchable(feed, now) :
                 /\ (handled'.result = "cooldown") = (handled'.name \in fetched)
                 /\ recent_bufos' = fetched \cup (IF handled'.result \in PublishOutcomes
                                                  THEN {handled'.name} ELSE {})]_vars

\* a refresh fetched the names of an earlier post; the locally recorded name
\* of that post was not among them, and the image was published again
C18_Witness ==
    /\ handled.refreshed
    /\ ~handled.fetch_failed
    /\ handled.result = "ok"
    /\ Len(feed) = 2
    /\ Cardinality(recent_bufos) = 3

(***************************************************************************)
(* Claims about the order of events and the consumer's transitions (Spec). *)
(***************************************************************************)
\* C19: events are processed one at a time in the order of delivery: while a
\* yielded Post is being handled it is the message read last, the next step
\* is the loop body for it and no read of the subscription, and when the
\* consumer reads again the body has finished, its name recorded in the
\* cooldown set if a publish was attempted.
C19_OneEventAtATimeInFeedOrder ==
    /\ [](pc = "handling" =>
             /\ post = Post(last_msg.did, last_msg.rkey, last_msg.text)
             /\ handled = NoStep)
    /\ [][pc = "handling" => (handled' # NoStep \/ pc' = "start")]_vars
    /\ [](handled.result \in PublishOutcomes =>
             /\ handled.name \in recent_bufos
             /\ post = NoPost
             /\ pc = "streaming")
    /\ [][(last_msg' # NoMsg /\ handled' = NoStep) =>
             (pc = "streaming" /\ post = NoPost)]_vars

\* the second of two events for one image was checked against the set that
\* holds the insert of the first, and skipped
C19_Witness ==
    /\ handled.result = "cooldown"
    /\ handled.name \in invoked
    /\ Len(feed) = 1
    /\ pc = "streaming"
    /\ cstate = "Connected"

\* the transitions of the consumer: the first connect of a run, and the cycle
ConsumerTransitions ==
    { <<"NotStarted", "Connecting">>,
      <<"Disconnected", "Connecting">>,
      <<"Connecting", "Connected">>,
      <<"Connecting", "Disconnected">>,
      <<"Connected", "Disconnected">> }

\* C20: while run_bot consumes it, the consumer moves only along
\* Disconnected -> Connecting -> Connected -> Disconnected and Connecting ->
\* Disconnected; a connection attempt that follows a failure comes after one
\* wait of ReconnectDelay seconds, never straight after the failure, the first
\* attempt of a run after none; and a Post is yielded only while Connected.
C20_ConsumerCycleWithFixedWait ==
    /\ [][(cstate' # cstate /\ pc' \notin {"start", "crashed"}) =>
             <<cstate, cstate'>> \in ConsumerTransitions]_vars
    /\ [][(cstate' = "Connecting" /\ cstate # "Connecting" /\ failures > 0) =>
             (cstate = "Disconnected" /\ delay' = ReconnectDelay)]_vars
    /\ [](cstate = "Connecting" => delay = (IF failures > 0 THEN ReconnectDelay ELSE 0))
    /\ [](pc = "handling" => cstate = "Connected")
    /\ [][post' # post /\ post' # NoPost => (cstate = "Connected" /\ cstate' = "Connected")]_vars

\* after a failure and the wait the consumer connected again and has yielded
\* a Post
C20_Witness ==
    /\ cstate = "Connected"
    /\ delay = ReconnectDelay
    /\ pc = "handling"

(***************************************************************************)
(* Claims about get_recent_bufo_names (HistorySpec).                       *)
(***************************************************************************)
\* the posts of a history whose created_at parses to a time, by position
Dated(posts) == { i \in 1..Len(posts) : posts[i].created_at.type = "iso" }

\* a history in which no dated post is followed by a newer one
NewestFirst(posts) ==
    \A i, j \in Dated(posts) :
        i < j => posts[i].created_at.ts >= posts[j].created_at.ts

\* the dated posts created within the cooldown window that ends at t
InWindow(posts, t, minutes) ==
    { i \in Dated(posts) : posts[i].created_at.ts >= t - minutes * 60 }

\* the dated posts older than the window
BeforeWindow(posts, t, minutes) ==
    { i \in Dated(posts) : posts[i].created_at.ts < t - minutes * 60 }

\* both file names guessed from every non-empty alt text of the posts at the
\* positions in S
GuessedNames(posts, S) ==
    { Replace(alt, " ", "-") \o ext :
        alt \in UNION { Range(posts[i].alts) \ {<<>>} : i \in S },
        ext \in { <<".","p","n","g">>, <<".","g","i","f">> } }

\* C21: for a newest-first history, a refresh whose fetch succeeded returns
\* exactly the .png and .gif names guessed from every image alt text of every
\* post created within the cooldown window, and no name that only a post
\* older than the window yields.
C21_ExactlyTheNamesOfPostsInWindow ==
    (/\ pc = "fetched"
     /\ ~handled.fetch_failed
     /\ NewestFirst(feed))
    => /\ recent_bufos =
            GuessedNames(feed, InWindow(feed, now, settings.cooldown_minutes))
       /\ \A name \in GuessedNames(feed, BeforeWindow(feed, now, settings.cooldown_minutes)) :
             name \in recent_bufos =>
                name \in GuessedNames(feed, InWindow(feed, now, settings.cooldown_minutes))

(***************************************************************************)
(* Claims about the phrase index (MatchSpec) and the startup (Spec).       *)
(***************************************************************************)
\* the k-th smallest number of the set S
Nth(S, k) == CHOOSE i \in S : Cardinality({ j \in S : j < i }) = k - 1

\* C22: once the matcher is constructed, its index holds exactly the catalog
\* entries whose phrase has at least min_words tokens, each with the phrase
\* extract_phrase gives for its name, in catalog order, and find_match never
\* changes it.
C22_IndexIsTheLongEnoughEntriesInOrder ==
    /\ [](mpc # "start" =>
             /\ Len(matcher.bufos) = Cardinality(IndexedEntries)
             /\ \A k \in 1..Len(matcher.bufos) :
                   /\ Len(matcher.bufos[k].phrase) >= matcher.min_words
                   /\ matcher.bufos[k].phrase = extract_phrase(matcher.bufos[k].bufo.name)
                   /\ matcher.bufos[k].bufo = bufos[Nth(IndexedEntries, k)])
    /\ [][mpc # "start" => (matcher' = matcher /\ bufos' = bufos)]_vars

\* a catalog whose first entry has too short a phrase and whose second entry
\* is indexed, after a find_match that matched it
C22_Witness ==
    /\ mpc = "matched"
    /\ match # None
    /\ Len(bufos) = 2
    /\ Len(matcher.bufos) = 1
    /\ matcher.bufos[1].bufo = bufos[2]

\* C23: run_bot does not go on with an empty phrase index: when no catalog
\* entry has a phrase of at least min_words tokens, it neither opens the feed
\* subscription nor enters the loop.
C23_NoRunWithEmptyIndex ==
    (matcher # NoMatcher /\ matcher.bufos = <<>>) =>
        /\ cstate = "NotStarted"
        /\ pc \notin {"streaming", "handling"}

\* the results of a loop body that came to the cooldown membership test
CheckedResults == PublishOutcomes \cup {"cooldown"}

\* C24: whenever the loop body tests a matched name against the cooldown set,
\* the set comes from a refresh made at most RefreshInterval seconds before
\* the body's reading of the clock, and the first such test of a run is
\* preceded by a refresh in the same body.
C24_CheckedSetIsNeverStale ==
    /\ [](handled.result \in CheckedResults =>
             /\ last_refresh > 0
             /\ last_refresh <= now
             /\ now - last_refresh <= RefreshInterval)
    /\ [][(last_refresh = 0 /\ handled'.result \in CheckedResults) =>
             (handled'.refreshed /\ last_refresh' = now)]_vars

\* a name was tested, without a refresh, against a set fetched earlier in
\* the run and less than RefreshInterval seconds before
C24_Witness ==
    /\ handled.result \in CheckedResults
    /\ ~handled.refreshed
    /\ last_refresh > StartTime + RefreshInterval
    /\ now > last_refresh
    /\ now - last_refresh < RefreshInterval

(***************************************************************************)
(* Claims about embed_image (FairEmbedSpec).                               *)
(***************************************************************************)
\* C25: embed_image always returns, after at most max_retries requests; it
\* goes round again only after a 429 response and only when another attempt
\* remains, having slept (2^attempt)*2 seconds; and it returns the embedding
\* of a successful response and None in every other case, raising nothing.
C25_EmbedImageRetriesOn429Only ==
    /\ <>(epc = "returned")
    /\ [](/\ requests <= max_retries
          /\ attempt <= max_retries
          /\ Len(waits) = attempt
          /\ max_retries > 0 => Len(waits) <= max_retries - 1
          /\ \A k \in 1..Len(waits) : waits[k] = (2 ^ (k - 1)) * 2)
    /\ [][attempt' # attempt =>
             /\ attempt' = attempt + 1
             /\ response' = "429"
             /\ attempt' < max_retries
             /\ epc' = "loop"]_vars
    /\ [](epc = "returned" =>
             /\ eresult \in {"None", "embedding"}
             /\ (eresult = "embedding") = (response = "ok"))

\* every attempt was answered 429: embed_image slept 2 and then 4 seconds,
\* sent max_retries requests and returned None
C25_Witness ==
    /\ epc = "returned"
    /\ eresult = "None"
    /\ response = "429"
    /\ max_retries >= 3
    /\ requests = max_retries
    /\ Len(waits) = max_retries - 1
    /\ waits[1] = 2
    /\ waits[2] = 4

====
